---- MODULE Spec2Model ----
(***************************************************************************)
(* Model of the defishard contracts:                                       *)
(*   - vault-contract/src/lib.rs   : the escrow vault (one instance)       *)
(*   - tenk-nft-contract/.../lib.rs: the minting contract                  *)
(* A call that panics is rolled back by the NEAR runtime: it leaves the    *)
(* contract state as it was and dispatches none of its promises.  Only    *)
(* the history variables (lastCall, calls) record that it was made.        *)
(***************************************************************************)
EXTENDS Integers, Sequences, FiniteSets, TLC

\* ------------------------------------------------------------------------
\* Bounds and input sets
\* ------------------------------------------------------------------------
MaxCalls == 4
MaxDecl == 2

Accounts == {"alice", "bob"}
TokenContracts == {"X", "Y"}
InvalidId == "X!"
NearAmounts == {0, 100}
TokenAmounts == {0, 200}
AttachedValues == {0, 100, 101}
TransferAmounts == {101, 103, 200}

TokenDepositArgs ==
    [token_contract_id : TokenContracts \cup {InvalidId},
     token_amount : TokenAmounts,
     is_deposited : BOOLEAN]

SeqsUpTo(S, n) == UNION {[1..k -> S] : k \in 0..n}

\* ------------------------------------------------------------------------
\* Vault state (vault-contract/src/lib.rs, struct Contract)
\* ------------------------------------------------------------------------
VARIABLES
    vault_status,     \* "uninit" | "live" | "deleted"
    owner_id,
    near_amount,
    near_deposited,
    token_deposit,    \* Seq of [token_contract_id, token_amount, is_deposited]
    pending_delete,   \* beneficiaries of delete_account promises in flight
    \* history
    near_accepted,    \* number of accepted base deposits
    near_released,    \* number of base transfers dispatched by release
    fee_forwarded,    \* total base fee forwarded to the owner
    token_matched,    \* per declaration: accepted matching notifications
    token_released,   \* per declaration: ft_transfer dispatches by release
    lastCall,         \* the last call made to the vault and its outcome
    calls             \* number of calls made

\* ------------------------------------------------------------------------
\* Minting contract state (tenk/src/lib.rs, struct Contract)
\* ------------------------------------------------------------------------
VARIABLES
    sale,             \* the Sale configuration
    now,              \* current_time_ms()
    whitelist,        \* account -> Allowance, for the accounts that have one
    last_id,
    owner_by_id,      \* tokens.owner_by_id: item id -> owner
    vaults,           \* per minted id: the vault account the mint provisions
    refunded,         \* account -> value the contract refunded to it
    lastMint,         \* the last call made to the minting contract
    mcalls,           \* number of calls made to the minting contract
    pending_tokens,
    releases,         \* release calls that nft_burn has dispatched to vaults
    linkdrops         \* per issued link-drop: signer, deposit, how far it got

tenkVars == <<sale, now, whitelist, last_id, owner_by_id, vaults, refunded,
              lastMint, mcalls, pending_tokens, releases, linkdrops>>

itemVars == <<pending_tokens, releases, linkdrops>>

vars == <<vault_status, owner_id, near_amount, near_deposited, token_deposit,
          pending_delete, near_accepted, near_released, fee_forwarded,
          token_matched, token_released, lastCall, calls,
          sale, now, whitelist, last_id, owner_by_id, vaults, refunded,
          lastMint, mcalls, pending_tokens, releases, linkdrops>>

vaultVars == <<vault_status, owner_id, near_amount, near_deposited,
               token_deposit, pending_delete, near_accepted, near_released,
               fee_forwarded, token_matched, token_released, lastCall, calls>>

vaultState == <<vault_status, owner_id, near_amount, near_deposited,
                token_deposit, pending_delete>>
vaultHistory == <<near_accepted, near_released, fee_forwarded, token_matched,
                  token_released>>

NoCall == [op |-> "none", caller |-> "-", ok |-> FALSE, ret |-> 0,
           amount |-> 0, claimant |-> "-", promises |-> <<>>]

Call(op, caller, ok, ret, amount, claimant, promises) ==
    [op |-> op, caller |-> caller, ok |-> ok, ret |-> ret, amount |-> amount,
     claimant |-> claimant, promises |-> promises]

NearTransfer(to, amt) ==
    [kind |-> "transfer", receiver |-> to, amount |-> amt, token |-> "NEAR"]
FtTransfer(contract, to, amt) ==
    [kind |-> "ft_transfer", receiver |-> to, amount |-> amt, token |-> contract]
DeleteAccount(beneficiary) ==
    [kind |-> "delete_account", receiver |-> beneficiary, amount |-> 0,
     token |-> "NEAR"]

VaultInit ==
    /\ vault_status = "uninit"
    /\ owner_id = "-"
    /\ near_amount = 0
    /\ near_deposited = FALSE
    /\ token_deposit = <<>>
    /\ pending_delete = <<>>
    /\ near_accepted = 0
    /\ near_released = 0
    /\ fee_forwarded = 0
    /\ token_matched = <<>>
    /\ token_released = <<>>
    /\ lastCall = NoCall
    /\ calls = 0

\* A failed call: the runtime discards its state changes and promises.
Failed(op, caller, amount, claimant) ==
    /\ lastCall' = Call(op, caller, FALSE, 0, amount, claimant, <<>>)
    /\ calls' = calls + 1
    /\ UNCHANGED vaultState
    /\ UNCHANGED vaultHistory
    /\ UNCHANGED tenkVars

\* ------------------------------------------------------------------------
\* new
\* ------------------------------------------------------------------------
is_valid_account_id(id) == id # InvalidId

token_is_acceptable(token) ==
    /\ is_valid_account_id(token.token_contract_id)
    /\ token.token_amount > 0
    /\ token.is_deposited = TRUE

new_args_valid(td) == \A i \in 1..Len(td) : token_is_acceptable(td[i])

new(owner, amount, td) ==
    /\ calls < MaxCalls
    /\ IF vault_status = "uninit" /\ new_args_valid(td)
       THEN /\ vault_status' = "live"
            /\ owner_id' = owner
            /\ near_amount' = amount
            /\ near_deposited' = FALSE
            /\ token_deposit' = td
            /\ token_matched' = [i \in 1..Len(td) |-> 0]
            /\ token_released' = [i \in 1..Len(td) |-> 0]
            /\ lastCall' = Call("new", owner, TRUE, 0, amount, "-", <<>>)
            /\ calls' = calls + 1
            /\ UNCHANGED <<pending_delete, near_accepted, near_released,
                           fee_forwarded>>
            /\ UNCHANGED tenkVars
       ELSE Failed("new", owner, amount, "-")

\* ------------------------------------------------------------------------
\* release
\* ------------------------------------------------------------------------
release_authorized_anyone(caller) == TRUE

release_authorized(caller) == caller = owner_id

released_tokens(td, claimant) ==
    LET conf == SelectSeq(td, LAMBDA t : t.is_deposited)
    IN  [i \in 1..Len(conf) |->
            FtTransfer(conf[i].token_contract_id, claimant, conf[i].token_amount)]

release_promises_base_always(claimant) ==
    <<NearTransfer(claimant, near_amount)>>
    \o released_tokens(token_deposit, claimant)
    \o <<DeleteAccount(claimant)>>

release_promises(claimant) ==
    (IF near_deposited THEN <<NearTransfer(claimant, near_amount)>> ELSE <<>>)
    \o released_tokens(token_deposit, claimant)
    \o <<DeleteAccount(claimant)>>

release(caller, claimant) ==
    /\ calls < MaxCalls
    /\ IF vault_status = "live" /\ release_authorized(caller)
       THEN /\ near_deposited' = FALSE
            /\ near_released' = near_released + (IF near_deposited THEN 1 ELSE 0)
            /\ token_released' =
                  [i \in 1..Len(token_deposit) |->
                      token_released[i]
                      + (IF token_deposit[i].is_deposited THEN 1 ELSE 0)]
            /\ pending_delete' = Append(pending_delete, claimant)
            /\ lastCall' = Call("release", caller, TRUE, 0, 0, claimant,
                                release_promises(claimant))
            /\ calls' = calls + 1
            /\ UNCHANGED <<vault_status, owner_id, near_amount, token_deposit,
                           near_accepted, fee_forwarded, token_matched>>
            /\ UNCHANGED tenkVars
       ELSE Failed("release", caller, 0, claimant)

\* The delete_account promise that release scheduled on the vault's own
\* account is executed in a later block.
delete_account ==
    /\ pending_delete # <<>>
    /\ pending_delete' = Tail(pending_delete)
    /\ vault_status' = IF vault_status = "live" THEN "deleted" ELSE vault_status
    /\ UNCHANGED <<owner_id, near_amount, near_deposited, token_deposit,
                   lastCall, calls>>
    /\ UNCHANGED vaultHistory
    /\ UNCHANGED tenkVars

\* ------------------------------------------------------------------------
\* deposit_near
\* ------------------------------------------------------------------------
near_fee == near_amount \div 100

can_accept_near_again(attached) ==
    /\ near_amount # 0
    /\ near_fee + near_amount = attached

can_accept_near_at_least(attached) ==
    /\ near_amount # 0
    /\ ~near_deposited
    /\ near_fee + near_amount >= attached

can_accept_near(attached) ==
    /\ near_amount # 0
    /\ ~near_deposited
    /\ near_fee + near_amount = attached

deposit_near(caller, attached) ==
    /\ calls < MaxCalls
    /\ IF vault_status = "live" /\ can_accept_near(attached)
       THEN /\ near_deposited' = TRUE
            /\ near_accepted' = near_accepted + 1
            /\ fee_forwarded' = fee_forwarded + near_fee
            /\ lastCall' = Call("deposit_near", caller, TRUE, 0, attached, "-",
                                <<NearTransfer(owner_id, near_fee)>>)
            /\ calls' = calls + 1
            /\ UNCHANGED <<vault_status, owner_id, near_amount, token_deposit,
                           pending_delete, near_released, token_matched,
                           token_released>>
            /\ UNCHANGED tenkVars
       ELSE Failed("deposit_near", caller, attached, "-")

\* ------------------------------------------------------------------------
\* ft_on_transfer
\* ------------------------------------------------------------------------
required_transfer(token) ==
    (token.token_amount \div 100) + (near_fee + near_amount)

token_matches(token, amount) ==
    /\ token.is_deposited = FALSE
    /\ required_transfer(token) = amount

\* The loop of ft_on_transfer from declaration i on: td is the declaration
\* list as changed so far, acc the declarations accepted so far.
RECURSIVE ft_loop(_, _, _, _, _)
ft_loop(i, td, acc, contract, amount) ==
    IF i > Len(td)
    THEN [td |-> td, acc |-> acc, ret |-> 0]
    ELSE IF td[i].token_contract_id = contract
         THEN IF token_matches(td[i], amount)
              THEN ft_loop(i + 1, [td EXCEPT ![i].is_deposited = TRUE],
                           Append(acc, i), contract, amount)
              ELSE [td |-> td, acc |-> acc, ret |-> amount]
         ELSE ft_loop(i + 1, td, acc, contract, amount)

ft_on_transfer(contract, amount) ==
    /\ calls < MaxCalls
    /\ IF vault_status = "live"
       THEN LET r == ft_loop(1, token_deposit, <<>>, contract, amount)
            IN  /\ token_deposit' = r.td
                /\ token_matched' =
                      [i \in 1..Len(token_deposit) |->
                          token_matched[i]
                          + (IF \E k \in 1..Len(r.acc) : r.acc[k] = i
                             THEN 1 ELSE 0)]
                /\ lastCall' =
                      Call("ft_on_transfer", contract, TRUE, r.ret, amount, "-",
                           [k \in 1..Len(r.acc) |->
                               FtTransfer(contract, owner_id,
                                   token_deposit[r.acc[k]].token_amount \div 100)])
                /\ calls' = calls + 1
                /\ UNCHANGED <<vault_status, owner_id, near_amount,
                               near_deposited, pending_delete, near_accepted,
                               near_released, fee_forwarded, token_released>>
                /\ UNCHANGED tenkVars
       ELSE Failed("ft_on_transfer", contract, amount, "-")

\* ========================================================================
\* Minting contract (tenk/src/lib.rs)
\* ========================================================================
MaxTime == 2
MaxMints == 2
None == -1
TwoNear == 2
StorageCost == 1

tokens_owner_id == "owner"
TECH_BACKUP_OWNER == "willem.near"
current_account_id == "tenk"
\* the account nft_burn takes as owner of an id that has no owner record
NO_OWNER_DEFAULT == "testnet"
Buyers == {"alice", NO_OWNER_DEFAULT}
Minters == Buyers \cup {tokens_owner_id, TECH_BACKUP_OWNER}

PresaleStarts == {None, 0}
PublicStarts == {None, 1}
PublicAllowances == {None, 0, 2}
Prices == {0, 3}
PresalePrices == {None, 1}
RateLimits == {None, 0}
WhitelistMax == {1, 3}
MintAttached == {1, 2, 3}
MintDeposits ==
    {<<[token_contract_id |-> "X", token_amount |-> 200, is_deposited |-> FALSE]>>,
     <<[token_contract_id |-> "X", token_amount |-> 200, is_deposited |-> TRUE]>>}
MintNearAmounts == {100}

Sales ==
    [presale_start : PresaleStarts, public_sale_start : PublicStarts,
     allowance : PublicAllowances, presale_price : PresalePrices,
     price : Prices, mint_rate_limit : RateLimits]

\* Sale of new_default_meta, with the creation time as public_sale_start
DefaultSale ==
    [presale_start |-> None, public_sale_start |-> 0, allowance |-> None,
     presale_price |-> None, price |-> 0, mint_rate_limit |-> None]

MintCall(op, caller, ok, err, attached, id, td, amount, released) ==
    [op |-> op, caller |-> caller, ok |-> ok, err |-> err,
     attached |-> attached, id |-> id, td |-> td, near_amount |-> amount,
     released |-> released, sent |-> 0]

NoMint == MintCall("none", "-", FALSE, "-", 0, 0, <<>>, 0, {})

TenkFieldsAt(sl, t) ==
    /\ sale = sl
    /\ now = t
    /\ whitelist = <<>>
    /\ last_id = 0
    /\ owner_by_id = <<>>
    /\ vaults = <<>>
    /\ refunded = [a \in Minters |-> 0]
    /\ lastMint = NoMint
    /\ mcalls = 0
    /\ pending_tokens = 0
    /\ linkdrops = <<>>
    /\ releases = {}

TenkFields(sl) == TenkFieldsAt(sl, 0)

Init == VaultInit /\ TenkFields(DefaultSale)

TenkInit == VaultInit /\ \E sl \in Sales : TenkFields(sl)

\* ---- Allowance (types.rs) ----------------------------------------------
Max(a, b) == IF a >= b THEN a ELSE b
Min(a, b) == IF a <= b THEN a ELSE b

Allowance_new(max) == [claimed |-> 0, max |-> max]
raise_max(a, max) == [a EXCEPT !.max = Max(a.max, max)]
left(a) == IF a.max > a.claimed THEN a.max - a.claimed ELSE 0
use_num(a, num) == [a EXCEPT !.claimed = a.claimed + num]

Insert(m, k, v) == [x \in DOMAIN m \cup {k} |-> IF x = k THEN v ELSE m[x]]

\* ---- status and price ---------------------------------------------------
get_status_inclusive ==
    IF sale.public_sale_start # None /\ sale.public_sale_start <= now
    THEN "Open"
    ELSE IF sale.presale_start # None /\ sale.presale_start <= now
         THEN "Presale"
         ELSE "Closed"

get_status ==
    IF sale.public_sale_start # None /\ sale.public_sale_start < now
    THEN "Open"
    ELSE IF sale.presale_start # None /\ sale.presale_start < now
         THEN "Presale"
         ELSE "Closed"

is_presale == get_status = "Presale"
has_allowance == sale.allowance # None \/ is_presale

is_owner_primary_only(minter) == minter = tokens_owner_id

is_owner(minter) == minter = tokens_owner_id \/ minter = TECH_BACKUP_OWNER

price_base_only == sale.price

price ==
    IF get_status \in {"Presale", "Closed"}
    THEN (IF sale.presale_price # None THEN sale.presale_price ELSE sale.price)
    ELSE sale.price

cost_per_token(minter) == IF is_owner(minter) THEN 0 ELSE price
total_cost(num, minter) == num * cost_per_token(minter)

\* ---- nft_mint_one -------------------------------------------------------
\* Every step of the call yields the whitelist as written so far (wl), and
\* either the error it panics with or ok.
Panic(msg, wl) == [ok |-> FALSE, err |-> msg, num |-> 0, wl |-> wl]
Pass(num, wl) == [ok |-> TRUE, err |-> "-", num |-> num, wl |-> wl]

get_or_add_whitelist_allowance_overwrite(account_id, num) ==
    IF sale.allowance = None
    THEN [left |-> num, wl |-> whitelist]
    ELSE LET allowance ==
                 [(IF account_id \in DOMAIN whitelist
                   THEN whitelist[account_id]
                   ELSE Allowance_new(sale.allowance))
                  EXCEPT !.max = sale.allowance]
         IN  [left |-> left(allowance),
              wl |-> Insert(whitelist, account_id, allowance)]

get_or_add_whitelist_allowance(account_id, num) ==
    IF sale.allowance = None
    THEN [left |-> num, wl |-> whitelist]
    ELSE LET allowance ==
                 raise_max(IF account_id \in DOMAIN whitelist
                           THEN whitelist[account_id]
                           ELSE Allowance_new(sale.allowance),
                           sale.allowance)
         IN  [left |-> left(allowance),
              wl |-> Insert(whitelist, account_id, allowance)]

assert_deposit(num, account_id, attached, wl) ==
    IF attached >= total_cost(num, account_id)
    THEN Pass(num, wl)
    ELSE Panic("Not enough attached deposit to buy", wl)

clamp_and_pay(allowance, num, account_id, attached, wl) ==
    LET n == Min(allowance, num)
    IN  IF n > 0
        THEN assert_deposit(n, account_id, attached, wl)
        ELSE Panic("Account has no more allowance left", wl)

assert_can_mint_missing_is_zero(account_id, num, attached) ==
    IF is_owner(account_id)
    THEN assert_deposit(num, account_id, attached, whitelist)
    ELSE CASE get_status = "Closed" ->
                Panic("Contract currently closed", whitelist)
           [] get_status = "Presale" ->
                clamp_and_pay(IF account_id \in DOMAIN whitelist
                              THEN left(whitelist[account_id]) ELSE 0,
                              num, account_id, attached, whitelist)
           [] get_status = "Open" ->
                LET r == get_or_add_whitelist_allowance(account_id, num)
                IN  clamp_and_pay(r.left, num, account_id, attached, r.wl)

assert_can_mint(account_id, num, attached) ==
    IF is_owner(account_id)
    THEN assert_deposit(num, account_id, attached, whitelist)
    ELSE CASE get_status = "Closed" ->
                Panic("Contract currently closed", whitelist)
           [] get_status = "Presale" ->
                IF account_id \in DOMAIN whitelist
                THEN clamp_and_pay(left(whitelist[account_id]), num,
                                   account_id, attached, whitelist)
                ELSE Panic("Account not on whitelist", whitelist)
           [] get_status = "Open" ->
                LET r == get_or_add_whitelist_allowance(account_id, num)
                IN  clamp_and_pay(r.left, num, account_id, attached, r.wl)

\* views.rs: how many tokens an account is still allowed to mint; None
\* is documented as unlimited
remaining_allowance(account_id) ==
    IF ~is_presale /\ sale.allowance = None
    THEN None
    ELSE LET allowance == IF is_presale THEN 0 ELSE sale.allowance
         IN  IF account_id \in DOMAIN whitelist
             THEN left(raise_max(whitelist[account_id], allowance))
             ELSE None

use_whitelist_allowance_no_debit(account_id, num, wl) == Pass(num, wl)

use_whitelist_allowance(account_id, num, wl) ==
    IF has_allowance /\ ~is_owner(account_id)
    THEN IF account_id \in DOMAIN wl
         THEN IF num <= left(wl[account_id])
              THEN Pass(num, Insert(wl, account_id, use_num(wl[account_id], num)))
              ELSE Panic("Not enough allowance", wl)
         ELSE Panic("Account not on whitelist", wl)
    ELSE Pass(num, wl)

\* refund_deposit_to_account in nft_mint_many_ungaurded
covers_storage(num, attached, wl) ==
    IF attached >= StorageCost * num
    THEN Pass(num, wl)
    ELSE Panic("Must attach deposit to cover storage", wl)

mint_outcome(account_id, attached) ==
    IF attached < TwoNear
    THEN Panic("You need to deposit 2N ", whitelist)
    ELSE IF sale.mint_rate_limit # None /\ ~(1 <= sale.mint_rate_limit)
    THEN Panic("over mint limit", whitelist)
    ELSE LET a == assert_can_mint(account_id, 1, attached)
         IN  IF ~a.ok THEN a
             ELSE LET m == covers_storage(a.num, attached, a.wl)
                  IN  IF ~m.ok THEN m
                      ELSE use_whitelist_allowance(account_id, a.num, m.wl)

\* The whitelist a call leaves behind: a call that panics is rolled back.
whitelist_written_anyway(r) == r.wl

whitelist_after(r) == IF r.ok THEN r.wl ELSE whitelist

\* The account the mint creates: add_full_access_key(signer_account_pk),
\* and the arguments of the vault's new.  removed_by records how a deleted
\* vault account went away.
vault_account(owner, td, amount, key) ==
    [status |-> "pending", owner_id |-> owner, token_deposit |-> td,
     near_amount |-> amount, access_key |-> key, removed_by |-> "-"]

vault_owner_is_minter(caller) == caller

vault_owner(caller) == current_account_id

\* Value a successful mint sends out: refund_deposit_to_account passes what
\* is attached beyond the storage cost on to the contract owner (a remainder
\* of at most 1 yoctoNEAR, below the unit used here, is kept), and the batch
\* that creates the vault transfers 2 N to it.
owner_payout(num, attached) ==
    LET surplus == attached - StorageCost * num
    IN  IF surplus > 0 THEN surplus ELSE 0

vault_seed == TwoNear

\* draw_and_mint: the identifier of the next item
draw_id_lowest_free ==
    CHOOSE id \in 1..(last_id + 1) :
        /\ id \notin DOMAIN owner_by_id
        /\ \A j \in 1..(id - 1) : j \in DOMAIN owner_by_id

draw_id == last_id + 1

nft_mint_one(caller, attached, td, amount) ==
    /\ mcalls < MaxMints
    /\ LET r == mint_outcome(caller, attached)
       IN  /\ whitelist' = whitelist_after(r)
           /\ IF r.ok
              THEN /\ last_id' = last_id + 1
                   /\ owner_by_id' = Insert(owner_by_id, draw_id, caller)
                   /\ vaults' = Append(vaults,
                                    vault_account(vault_owner(caller), td,
                                                  amount, caller))
                   /\ lastMint' =
                         [MintCall("nft_mint_one", caller, TRUE, "-",
                                   attached, draw_id, td, amount, {})
                          EXCEPT !.sent = owner_payout(1, attached) + vault_seed]
              ELSE /\ UNCHANGED <<last_id, owner_by_id, vaults>>
                   /\ lastMint' = MintCall("nft_mint_one", caller, FALSE, r.err,
                                           attached, 0, td, amount, {})
    /\ mcalls' = mcalls + 1
    /\ UNCHANGED <<sale, now, refunded>>
    /\ UNCHANGED itemVars
    /\ UNCHANGED vaultVars

\* The promise batch issued by nft_mint_one (create_account, transfer,
\* deploy, call new) is executed on the new account; it fails as a whole
\* when new panics.  No callback is attached to it.
provision_vault(id) ==
    /\ id \in 1..Len(vaults)
    /\ vaults[id].status = "pending"
    /\ vaults' = [vaults EXCEPT ![id].status =
                     IF new_args_valid(vaults[id].token_deposit)
                     THEN "live" ELSE "failed"]
    /\ UNCHANGED <<sale, now, whitelist, last_id, owner_by_id, refunded,
                   lastMint, mcalls>>
    /\ UNCHANGED itemVars
    /\ UNCHANGED vaultVars

\* Owner-only whitelisting (owner.rs)
add_whitelist_account(account_id, max) ==
    /\ mcalls < MaxMints
    /\ whitelist' =
          Insert(whitelist, account_id,
                 IF account_id \in DOMAIN whitelist
                 THEN raise_max(whitelist[account_id], max)
                 ELSE Allowance_new(max))
    /\ whitelist' # whitelist
    /\ lastMint' = MintCall("add_whitelist_account", tokens_owner_id, TRUE,
                            "-", 0, 0, <<>>, 0, {})
    /\ mcalls' = mcalls + 1
    /\ UNCHANGED <<sale, now, last_id, owner_by_id, vaults, refunded>>
    /\ UNCHANGED itemVars
    /\ UNCHANGED vaultVars

\* Owner-only change of the public per-account cap (owner.rs)
update_allowance(allowance) ==
    /\ allowance # sale.allowance
    /\ sale' = [sale EXCEPT !.allowance = allowance]
    /\ UNCHANGED <<now, whitelist, last_id, owner_by_id, vaults, refunded,
                   lastMint, mcalls>>
    /\ UNCHANGED itemVars
    /\ UNCHANGED vaultVars

tick ==
    /\ now < MaxTime
    /\ now' = now + 1
    /\ UNCHANGED <<sale, whitelist, last_id, owner_by_id, vaults, refunded,
                   lastMint, mcalls>>
    /\ UNCHANGED itemVars
    /\ UNCHANGED vaultVars

TenkNext ==
    \/ \E c \in Minters, v \in MintAttached, td \in MintDeposits,
          a \in MintNearAmounts : nft_mint_one(c, v, td, a)
    \/ \E id \in 1..MaxMints : provision_vault(id)
    \/ \E b \in Buyers, m \in WhitelistMax : add_whitelist_account(b, m)
    \/ \E a \in PublicAllowances : update_allowance(a)
    \/ tick

TenkSpec == TenkInit /\ [][TenkNext]_vars

\* ---- Item lifecycle: burn, vault release, link-drop mint -----------------
OneYocto == 1
BurnDeposits == {0, OneYocto}
\* identifiers a burn may name: minted, burned or not minted yet
BurnIds == 1..MaxMints
LinkAttached == {0, StorageCost}

\* tokens_per_owner, the per-owner index of owner_by_id
tokens_per_owner(account_id) ==
    {id \in DOMAIN owner_by_id : owner_by_id[id] = account_id}

\* owner_by_id.get(&token_id).unwrap_or("testnet")
burn_owner(token_id) ==
    IF token_id \in DOMAIN owner_by_id THEN owner_by_id[token_id]
    ELSE NO_OWNER_DEFAULT

\* the release call nft_burn sends to vault_<token_id>.<contract>
release_call(token_id, claimant) == [id |-> token_id, owner_id |-> claimant]

\* A call sent to an account that no mint has asked to create fails on
\* arrival; the others wait for their vault.
in_flight(token_id, claimant) ==
    IF token_id \in 1..Len(vaults) THEN {release_call(token_id, claimant)}
    ELSE {}

burn_outcome(caller, deposit, token_id) ==
    IF deposit # OneYocto
    THEN Panic("Requires attached deposit of exactly 1 yoctoNEAR", whitelist)
    ELSE IF burn_owner(token_id) # caller
    THEN Panic("Token owner only", whitelist)
    ELSE IF tokens_per_owner(burn_owner(token_id)) = {}
    THEN Panic("called Option::unwrap() on a None value", whitelist)
    ELSE Pass(1, whitelist)

nft_burn(caller, deposit, token_id) ==
    /\ LET r == burn_outcome(caller, deposit, token_id)
           owner == burn_owner(token_id)
       IN  IF r.ok
           THEN /\ owner_by_id' =
                      [id \in DOMAIN owner_by_id \ {token_id} |-> owner_by_id[id]]
                /\ releases' = releases \cup in_flight(token_id, owner)
                /\ lastMint' = MintCall("nft_burn", caller, TRUE, "-", deposit,
                                        token_id, <<>>, 0,
                                        {release_call(token_id, owner)})
           ELSE /\ UNCHANGED <<owner_by_id, releases>>
                /\ lastMint' = MintCall("nft_burn", caller, FALSE, r.err,
                                        deposit, token_id, <<>>, 0, {})
    /\ UNCHANGED <<sale, now, whitelist, last_id, vaults, refunded, mcalls,
                   pending_tokens, linkdrops>>
    /\ UNCHANGED vaultVars

\* The release call dispatched by a burn runs on the vault account with the
\* minting contract as predecessor: the vault's release lets its recorded
\* owner through, pays out and deletes the account.
vault_release(id) ==
    /\ \E c \in releases : c.id = id
    /\ id \in 1..Len(vaults)
    /\ vaults[id].status = "live"
    /\ IF vaults[id].owner_id = current_account_id
       THEN vaults' = [vaults EXCEPT ![id].status = "deleted",
                                     ![id].removed_by = "release"]
       ELSE vaults' = [vaults EXCEPT ![id].removed_by = "refused"]
    /\ vaults' # vaults
    /\ UNCHANGED <<sale, now, whitelist, last_id, owner_by_id, refunded,
                   lastMint, mcalls>>
    /\ UNCHANGED itemVars
    /\ UNCHANGED vaultVars

\* A transaction signed with the full-access key that the mint put on the
\* vault account: the key holder acts as the account itself, here by deleting
\* it (DeleteAccount sends the whole balance to a beneficiary of its choice).
key_holder_delete(id) ==
    /\ id \in 1..Len(vaults)
    /\ vaults[id].status = "live"
    /\ vaults[id].access_key # "-"
    /\ vaults' = [vaults EXCEPT ![id].status = "deleted",
                                ![id].removed_by = "access_key"]
    /\ UNCHANGED <<sale, now, whitelist, last_id, owner_by_id, refunded,
                   lastMint, mcalls>>
    /\ UNCHANGED itemVars
    /\ UNCHANGED vaultVars

\* Issuing a link-drop reserves one item: the speculative pending counter
create_linkdrop(caller, deposit) ==
    /\ mcalls < MaxMints
    /\ pending_tokens' = pending_tokens + 1
    /\ linkdrops' = Append(linkdrops, [signer |-> caller, deposit |-> deposit,
                                       state |-> "sending"])
    /\ lastMint' = MintCall("create_linkdrop", caller, TRUE, "-", deposit, 0,
                            <<>>, 0, {})
    /\ mcalls' = mcalls + 1
    /\ UNCHANGED <<sale, now, whitelist, last_id, owner_by_id, vaults,
                   refunded, releases>>
    /\ UNCHANGED vaultVars

\* pending_tokens -= 1 on a u32: below zero the subtraction overflows (a
\* panic in a build with overflow checks, 2^32 - 1 in one without); Underflow
\* stands for either outcome
Underflow == -1
minus_one(n) == IF n > 0 THEN n - 1 ELSE Underflow

send_failed_or_not(promise_ok) == TRUE

send_failed(promise_ok) == ~promise_ok

\* The callback of the send that issued link-drop k; it is delivered once,
\* with the deposit of the issuing call attached and its signer as signer.
on_send_with_callback(k, promise_ok) ==
    /\ k \in 1..Len(linkdrops)
    /\ linkdrops[k].state = "sending"
    /\ LET amount == linkdrops[k].deposit
           signer == linkdrops[k].signer
       IN  IF send_failed(promise_ok)
           THEN /\ pending_tokens' = minus_one(pending_tokens)
                /\ refunded' =
                      IF amount > 0
                      THEN [refunded EXCEPT ![signer] = @ + amount]
                      ELSE refunded
                /\ lastMint' = MintCall("on_send_with_callback", signer, TRUE,
                                        "-", amount, 0, <<>>, 0, {})
           ELSE /\ UNCHANGED <<pending_tokens, refunded>>
                /\ lastMint' = MintCall("on_send_with_callback", signer, TRUE,
                                        "-", amount, 0, <<>>, 0, {})
    /\ linkdrops' = [linkdrops EXCEPT ![k].state =
                        IF promise_ok THEN "sent" ELSE "failed"]
    /\ UNCHANGED <<sale, now, whitelist, last_id, owner_by_id, vaults, mcalls,
                   releases>>
    /\ UNCHANGED vaultVars

\* link_callback mints through nft_mint_many_ungaurded and sends no promise:
\* the item it mints has no vault account
no_vault ==
    [status |-> "none", owner_id |-> "-", token_deposit |-> <<>>,
     near_amount |-> 0, access_key |-> "-", removed_by |-> "-"]

link_outcome(mint_for_free, attached, promise_ok) ==
    IF ~promise_ok
    THEN Panic("Promise before Linkdrop callback failed", whitelist)
    ELSE IF mint_for_free THEN Pass(1, whitelist)
    ELSE covers_storage(1, attached, whitelist)

\* The callback of the claim of link-drop k, which was sent successfully
link_callback(k, account_id, mint_for_free, attached, promise_ok) ==
    /\ k \in 1..Len(linkdrops)
    /\ linkdrops[k].state = "sent"
    /\ LET r == link_outcome(mint_for_free, attached, promise_ok)
       IN  IF r.ok
           THEN /\ pending_tokens' = minus_one(pending_tokens)
                /\ linkdrops' = [linkdrops EXCEPT ![k].state = "claimed"]
                /\ last_id' = last_id + 1
                /\ owner_by_id' = Insert(owner_by_id, draw_id, account_id)
                /\ vaults' = Append(vaults, no_vault)
                /\ lastMint' = MintCall("link_callback", current_account_id,
                                        TRUE, "-", attached, draw_id,
                                        <<>>, 0, {})
           ELSE /\ UNCHANGED <<pending_tokens, linkdrops, last_id,
                               owner_by_id, vaults>>
                /\ lastMint' = MintCall("link_callback", current_account_id,
                                        FALSE, r.err, attached, 0, <<>>, 0, {})
    /\ UNCHANGED <<sale, now, whitelist, refunded, mcalls, releases>>
    /\ UNCHANGED vaultVars

DropDeposits == {0, 3}

\* Calls of the item lifecycle, made while the default sale is open
ItemAttached == {TwoNear}

ItemNext ==
    \/ \E c \in Buyers, v \in ItemAttached, td \in MintDeposits,
          a \in MintNearAmounts : nft_mint_one(c, v, td, a)
    \/ \E id \in 1..MaxMints : provision_vault(id)
    \/ \E c \in Buyers, d \in BurnDeposits, id \in BurnIds : nft_burn(c, d, id)
    \/ \E id \in 1..MaxMints : vault_release(id)
    \/ \E id \in 1..MaxMints : key_holder_delete(id)
    \/ \E d \in DropDeposits : create_linkdrop("alice", d)
    \/ \E k \in 1..MaxMints, ok \in BOOLEAN : on_send_with_callback(k, ok)
    \/ \E k \in 1..MaxMints, b \in Buyers, f \in BOOLEAN, v \in LinkAttached,
          ok \in BOOLEAN : link_callback(k, b, f, v, ok)

\* The default sale opens with the block that constructs the contract; the
\* item lifecycle is followed from the next block on.
ItemInit == VaultInit /\ TenkFieldsAt(DefaultSale, 1)

ItemSpec == ItemInit /\ [][ItemNext]_vars

\* ------------------------------------------------------------------------
\* Once the state exists `new` fails whatever its arguments are, so one
\* argument list stands for all of them there.
NewArgs ==
    IF vault_status = "uninit" THEN SeqsUpTo(TokenDepositArgs, MaxDecl)
    ELSE {<<>>}

Next ==
    \/ \E o \in Accounts, a \in NearAmounts, td \in NewArgs : new(o, a, td)
    \/ \E c \in Accounts, cl \in Accounts : release(c, cl)
    \/ delete_account
    \/ \E c \in Accounts, v \in AttachedValues : deposit_near(c, v)
    \/ \E t \in TokenContracts, v \in TransferAmounts : ft_on_transfer(t, v)

Spec == Init /\ [][Next]_vars

\* ========================================================================
\* Properties
\* ========================================================================
IsCall(op) == calls' = calls + 1 /\ lastCall'.op = op

Count(s, P(_)) == Cardinality({k \in 1..Len(s) : P(s[k])})

\* C1: each confirmed asset is dispatched to a claimant at most once, over
\* any sequence of calls interleaved with the vault's pending deletion: no
\* declaration is paid out twice by release, and the base amount is paid out
\* no more often than a base deposit was accepted.
C1_NoDoubleRelease ==
    /\ \A i \in 1..Len(token_released) : token_released[i] <= 1
    /\ near_released <= near_accepted

\* C2: a release call by anyone but the recorded owner fails, dispatches no
\* transfer and no deletion, and leaves the vault as it was.
C2_ReleaseOwnerOnly ==
    [][(IsCall("release") /\ vault_status = "live"
            /\ lastCall'.caller # owner_id)
        => /\ ~lastCall'.ok
           /\ lastCall'.promises = <<>>
           /\ UNCHANGED vaultState
           /\ UNCHANGED vaultHistory]_vars

C2_Witness ==
    /\ lastCall.op = "release"
    /\ vault_status = "live"
    /\ lastCall.caller # owner_id
    /\ ~lastCall.ok
    /\ near_deposited
    /\ Len(token_deposit) > 0

\* C3: a vault always starts unconfirmed: after a successful new the base
\* flag and the flag of every declared token deposit are false (so a
\* declaration with a pre-set flag was rejected).
C3_StartsUnconfirmed ==
    (lastCall.op = "new" /\ lastCall.ok)
        => /\ ~near_deposited
           /\ \A i \in 1..Len(token_deposit) : ~token_deposit[i].is_deposited

\* C4: token-deposit matching is exact-amount: a declaration is confirmed
\* only through an accepted notification whose sending contract and amount
\* match it, and a notification that matches no pending declaration of its
\* sender flips no flag and is returned in full.
C4_ConfirmedOnlyByMatch ==
    /\ [](\A i \in 1..Len(token_deposit) :
            token_deposit[i].is_deposited => token_matched[i] >= 1)
    /\ [][(IsCall("ft_on_transfer") /\ vault_status = "live")
          => LET pend == {i \in 1..Len(token_deposit) :
                             /\ token_deposit[i].token_contract_id = lastCall'.caller
                             /\ ~token_deposit[i].is_deposited}
             IN  /\ \A i \in 1..Len(token_deposit) :
                      (~token_deposit[i].is_deposited
                          /\ token_deposit'[i].is_deposited)
                      => /\ token_deposit[i].token_contract_id = lastCall'.caller
                         /\ required_transfer(token_deposit[i]) = lastCall'.amount
                 /\ (pend # {} /\ \A i \in pend :
                        required_transfer(token_deposit[i]) # lastCall'.amount)
                    => /\ lastCall'.ret = lastCall'.amount
                       /\ token_deposit' = token_deposit]_vars

\* C5: a notification from a token contract the vault has no declaration
\* for is reported fully unused: the returned amount is the transferred one.
C5_UndeclaredSenderUnused ==
    (/\ lastCall.op = "ft_on_transfer"
     /\ lastCall.ok
     /\ \A i \in 1..Len(token_deposit) :
           token_deposit[i].token_contract_id # lastCall.caller)
        => lastCall.ret = lastCall.amount

\* C6: a successful release settles exactly what is confirmed at call time:
\* the base amount goes to the claimant iff the base flag is set (and the
\* flag is cleared), the declared amount of a declaration goes to the
\* claimant iff that declaration is confirmed, and the deletion of the vault
\* account with the claimant as beneficiary is scheduled last.
C6_ReleaseSettlesConfirmed ==
    [][(IsCall("release") /\ lastCall'.ok)
        => LET ps == lastCall'.promises
               cl == lastCall'.claimant
           IN  /\ Count(ps, LAMBDA p : p.kind = "transfer")
                     = (IF near_deposited THEN 1 ELSE 0)
               /\ \A k \in 1..Len(ps) :
                     ps[k].kind = "transfer"
                         => ps[k] = NearTransfer(cl, near_amount)
               /\ ~near_deposited'
               /\ \A k \in 1..Len(ps) :
                     ps[k].kind = "ft_transfer" => ps[k].receiver = cl
               /\ \A c \in TokenContracts, a \in TokenAmounts :
                     Count(ps, LAMBDA p : p = FtTransfer(c, cl, a))
                       = Count(token_deposit,
                               LAMBDA t : /\ t.is_deposited
                                          /\ t.token_contract_id = c
                                          /\ t.token_amount = a)
               /\ Count(ps, LAMBDA p : p.kind = "ft_transfer")
                     = Count(token_deposit, LAMBDA t : t.is_deposited)
               /\ ps[Len(ps)] = DeleteAccount(cl)
               /\ Count(ps, LAMBDA p : p.kind = "delete_account") = 1
               /\ pending_delete' = Append(pending_delete, cl)]_vars

C6_Witness ==
    /\ lastCall.op = "release"
    /\ lastCall.ok
    /\ Len(lastCall.promises) >= 3
    /\ lastCall.promises[1].kind = "transfer"
    /\ lastCall.promises[2].kind = "ft_transfer"
    /\ vault_status = "deleted"

\* C7: deposit_near is accepted iff the declared base amount is nonzero,
\* the base is not yet confirmed and the attached value is exactly
\* base + base/100; on acceptance base/100 is forwarded to the recorded
\* owner and the base flag is set.
C7_DepositNearAccepted ==
    [][(IsCall("deposit_near") /\ vault_status = "live")
        => /\ lastCall'.ok
                <=> (/\ near_amount # 0
                     /\ ~near_deposited
                     /\ lastCall'.amount = near_amount + (near_amount \div 100))
           /\ lastCall'.ok
                => /\ lastCall'.promises
                        = <<NearTransfer(owner_id, near_amount \div 100)>>
                   /\ near_deposited'
           /\ near_deposited => ~lastCall'.ok]_vars

C7_Witness ==
    /\ lastCall.op = "deposit_near"
    /\ lastCall.ok
    /\ near_deposited
    /\ fee_forwarded > 0

\* C8 as stated: a base deposit that does not match completes normally,
\* leaving the base flag unchanged and forwarding no fee.
C8_MismatchCompletes ==
    [][(/\ IsCall("deposit_near")
        /\ vault_status = "live"
        /\ ~(/\ near_amount # 0
             /\ ~near_deposited
             /\ lastCall'.amount = near_amount + (near_amount \div 100)))
        => /\ lastCall'.ok
           /\ near_deposited' = near_deposited
           /\ lastCall'.promises = <<>>]_vars

\* C8 (amended): a base deposit that does not match fails the call; the
\* base flag is unchanged and no fee is forwarded.
C8_MismatchFails ==
    [][(/\ IsCall("deposit_near")
        /\ vault_status = "live"
        /\ ~(/\ near_amount # 0
             /\ ~near_deposited
             /\ lastCall'.amount = near_amount + (near_amount \div 100)))
        => /\ ~lastCall'.ok
           /\ near_deposited' = near_deposited
           /\ lastCall'.promises = <<>>
           /\ fee_forwarded' = fee_forwarded]_vars

C8_Witness ==
    /\ lastCall.op = "deposit_near"
    /\ ~lastCall.ok
    /\ vault_status = "live"
    /\ near_amount # 0
    /\ ~near_deposited
    /\ lastCall.amount # near_amount + (near_amount \div 100)

IsMint(op) == mcalls' = mcalls + 1 /\ lastMint'.op = op

\* C9: a minted item is never left orphaned: every existing item whose
\* vault provisioning has failed has been compensated, i.e. the contract
\* has refunded its minter at least the value a mint must attach.
C9_NoOrphanedItem ==
    \A id \in DOMAIN owner_by_id :
        vaults[id].status = "failed"
            => refunded[owner_by_id[id]] >= TwoNear

\* C10: a mint that fails a precondition is an atomic rejection: the
\* allowance table, the item table, last_id and the provisioned vaults are
\* as they were before the call, and nothing is refunded or paid.
C10_FailedMintChangesNothing ==
    [][(IsMint("nft_mint_one") /\ ~lastMint'.ok)
        => UNCHANGED <<whitelist, owner_by_id, last_id, vaults, refunded>>]_vars

C10_Witness ==
    /\ lastMint.op = "nft_mint_one"
    /\ ~lastMint.ok
    /\ lastMint.err = "Not enough attached deposit to buy"
    /\ get_status = "Open"
    /\ sale.allowance # None
    /\ lastMint.caller \in Buyers
    /\ lastMint.caller \notin DOMAIN whitelist
    /\ last_id > 0

\* A mint call that gets past the 2 N deposit and the rate limit checks
ReachesAdmission ==
    /\ IsMint("nft_mint_one")
    /\ lastMint'.attached >= TwoNear
    /\ (sale.mint_rate_limit = None \/ 1 <= sale.mint_rate_limit)

\* C11 as stated: in Presale a mint by a non-owner account without an
\* allowance record fails with the no-allowance-left error and creates no
\* allowance record and no item.
C11_PresaleNoRecordNoAllowanceLeft ==
    [][(/\ ReachesAdmission
        /\ get_status = "Presale"
        /\ ~is_owner(lastMint'.caller)
        /\ lastMint'.caller \notin DOMAIN whitelist)
        => /\ ~lastMint'.ok
           /\ lastMint'.err = "Account has no more allowance left"
           /\ UNCHANGED <<whitelist, owner_by_id, last_id>>]_vars

\* C11 (amended): in Presale a mint by a non-owner account without an
\* allowance record fails with "Account not on whitelist" and creates no
\* allowance record and no item.
C11_PresaleNoRecordNotOnWhitelist ==
    [][(/\ ReachesAdmission
        /\ get_status = "Presale"
        /\ ~is_owner(lastMint'.caller)
        /\ lastMint'.caller \notin DOMAIN whitelist)
        => /\ ~lastMint'.ok
           /\ lastMint'.err = "Account not on whitelist"
           /\ UNCHANGED <<whitelist, owner_by_id, last_id>>]_vars

C11_Witness ==
    /\ lastMint.op = "nft_mint_one"
    /\ get_status = "Presale"
    /\ lastMint.caller \in Buyers
    /\ lastMint.caller \notin DOMAIN whitelist
    /\ lastMint.err = "Account not on whitelist"
    /\ DOMAIN whitelist # {}

\* C12: for a non-owner mint in Presale (with a record) or in Open with a
\* cap, the number of items minted is min(1, left) with left = max - claimed
\* of the caller's allowance after the Open-phase create/raise; the mint
\* fails when that is 0; on success claimed grows by the number minted and
\* max stays what the create/raise made it.
C12_MintClamped ==
    [][(/\ ReachesAdmission
        /\ ~is_owner(lastMint'.caller)
        /\ \/ get_status = "Presale" /\ lastMint'.caller \in DOMAIN whitelist
           \/ get_status = "Open" /\ sale.allowance # None)
        => LET c == lastMint'.caller
               stored == IF c \in DOMAIN whitelist THEN whitelist[c]
                         ELSE [claimed |-> 0, max |-> sale.allowance]
               base == IF get_status = "Open"
                       THEN [stored EXCEPT !.max =
                                IF stored.max >= sale.allowance
                                THEN stored.max ELSE sale.allowance]
                       ELSE stored
               n == IF base.max - base.claimed >= 1 THEN 1 ELSE 0
           IN  /\ n = 0 => /\ ~lastMint'.ok
                           /\ lastMint'.err = "Account has no more allowance left"
               /\ lastMint'.ok
                    => /\ last_id' - last_id = n
                       /\ whitelist'[c].claimed = base.claimed + n
                       /\ whitelist'[c].max = base.max]_vars

C12_Witness ==
    /\ lastMint.op = "nft_mint_one"
    /\ lastMint.ok
    /\ lastMint.caller \in Buyers
    /\ get_status = "Open"
    /\ sale.allowance = 2
    /\ whitelist[lastMint.caller] = [claimed |-> 1, max |-> 2]

\* C15: the phase is Open iff public_sale_start is set and before now,
\* else Presale iff presale_start is set and before now, else Closed; at
\* now = public_sale_start the sale is not yet Open; nothing else is returned.
C15_StatusPrecedence ==
    LET open == sale.public_sale_start # None /\ sale.public_sale_start < now
        pre == sale.presale_start # None /\ sale.presale_start < now
    IN  /\ get_status \in {"Closed", "Presale", "Open"}
        /\ (get_status = "Open") <=> open
        /\ (get_status = "Presale") <=> (~open /\ pre)
        /\ (get_status = "Closed") <=> (~open /\ ~pre)
        /\ sale.public_sale_start = now => get_status # "Open"
        /\ sale.public_sale_start = None => get_status # "Open"

C15_Witness ==
    /\ sale.public_sale_start = now
    /\ sale.presale_start # None
    /\ get_status = "Presale"
    /\ lastMint.op = "nft_mint_one"

\* C16: for a non-owner mint the required value is 1 x unit price, the
\* unit price being the presale price (the base price if none is set) in
\* Presale and Closed and the base price in Open; the mint succeeds only if
\* the attached value covers it, and a mint that passes every earlier check
\* without covering it fails with the insufficient-deposit error, minting
\* nothing.
C16_RequiredValue ==
    [][(IsMint("nft_mint_one") /\ ~is_owner(lastMint'.caller))
        => LET unit == IF get_status = "Open" THEN sale.price
                       ELSE IF sale.presale_price # None
                            THEN sale.presale_price ELSE sale.price
               short == lastMint'.attached < 1 * unit
               insufficient ==
                   lastMint'.err = "Not enough attached deposit to buy"
           IN  /\ lastMint'.ok => ~short
               /\ insufficient => short /\ ~lastMint'.ok
               /\ (short /\ lastMint'.err \notin
                      {"You need to deposit 2N ", "over mint limit",
                       "Contract currently closed", "Account not on whitelist",
                       "Account has no more allowance left"})
                    => insufficient
               /\ ~lastMint'.ok => UNCHANGED <<last_id, owner_by_id>>]_vars

C16_Witness ==
    /\ lastMint.op = "nft_mint_one"
    /\ lastMint.err = "Not enough attached deposit to buy"
    /\ get_status = "Presale"
    /\ sale.presale_price = None
    /\ lastMint.attached = 2
    /\ lastMint.caller \in DOMAIN whitelist

\* C13: every stored allowance has claimed <= max, and no mint lowers the
\* max or the claimed count of any account, whatever the public cap is at
\* that time.
C13_AllowanceMonotonic ==
    /\ [](\A a \in DOMAIN whitelist : whitelist[a].claimed <= whitelist[a].max)
    /\ [][IsMint("nft_mint_one")
          => \A a \in DOMAIN whitelist :
                /\ a \in DOMAIN whitelist'
                /\ whitelist'[a].max >= whitelist[a].max
                /\ whitelist'[a].claimed >= whitelist[a].claimed]_vars

C13_Witness ==
    /\ lastMint.op = "nft_mint_one"
    /\ lastMint.ok
    /\ get_status = "Open"
    /\ sale.allowance = 2
    /\ lastMint.caller \in DOMAIN whitelist
    /\ whitelist[lastMint.caller] = [claimed |-> 1, max |-> 3]

\* C14 as stated: a mint by the owner or the backup owner succeeds in every
\* phase, requires no payment for the item, and neither creates nor changes
\* an allowance record.
C14_OwnerMintAlwaysSucceeds ==
    [][(IsMint("nft_mint_one")
            /\ lastMint'.caller \in {tokens_owner_id, TECH_BACKUP_OWNER})
        => /\ lastMint'.ok
           /\ total_cost(1, lastMint'.caller) = 0
           /\ last_id' = last_id + 1
           /\ UNCHANGED whitelist]_vars

\* C14 (amended): a mint by the owner or the backup owner that attaches at
\* least 2 N and is admitted by the rate limit succeeds in every phase,
\* with a required item value of 0, unclamped by any allowance, and neither
\* creates nor changes an allowance record; an owner mint fails only on the
\* 2 N deposit or the rate limit.
C14_OwnerMintBypasses ==
    [][(IsMint("nft_mint_one")
            /\ lastMint'.caller \in {tokens_owner_id, TECH_BACKUP_OWNER})
        => /\ total_cost(1, lastMint'.caller) = 0
           /\ UNCHANGED whitelist
           /\ (lastMint'.attached >= TwoNear
                  /\ (sale.mint_rate_limit = None \/ 1 <= sale.mint_rate_limit))
              => (lastMint'.ok /\ last_id' = last_id + 1)
           /\ ~lastMint'.ok
              => lastMint'.err \in {"You need to deposit 2N ", "over mint limit"}]_vars

C14_Witness ==
    /\ lastMint.op = "nft_mint_one"
    /\ lastMint.ok
    /\ lastMint.caller = TECH_BACKUP_OWNER
    /\ get_status = "Closed"
    /\ sale.allowance = 0
    /\ sale.price = 3
    /\ lastMint.attached = 2
    /\ TECH_BACKUP_OWNER \notin DOMAIN whitelist

\* C17: item identifiers are monotonic and never reused: last_id never
\* decreases, every id ever assigned lies in 1..last_id, and a step that
\* adds an item (nft_mint_one or link_callback) adds exactly the id
\* last_id + 1, greater than every id assigned before it, burned ones
\* included.
C17_IdsNeverReused ==
    /\ [](DOMAIN owner_by_id \subseteq 1..last_id /\ Len(vaults) = last_id)
    /\ [][/\ last_id' \in {last_id, last_id + 1}
          /\ \A id \in DOMAIN owner_by_id' \ DOMAIN owner_by_id :
                /\ id = last_id + 1
                /\ last_id' = id
                /\ lastMint'.op \in {"nft_mint_one", "link_callback"}
                /\ lastMint'.ok /\ lastMint'.id = id
                /\ \A old \in 1..Len(vaults) : id > old
          /\ last_id' # last_id => last_id' \in DOMAIN owner_by_id']_vars

C17_Witness ==
    /\ last_id = 2
    /\ 1 \notin DOMAIN owner_by_id
    /\ 2 \in DOMAIN owner_by_id
    /\ vaults[1].status # "none"
    /\ lastMint.op = "link_callback"
    /\ lastMint.ok
    /\ lastMint.id = 2
    /\ \E c \in releases : c.id = 1

\* A step in which nft_burn was called
BurnStep ==
    /\ lastMint'.op = "nft_burn"
    /\ <<lastMint, owner_by_id, releases>>' # <<lastMint, owner_by_id, releases>>

\* C18: an item is destroyed only by a burn by its current owner, which
\* releases the item's own vault: an item leaves the item table only in a
\* successful nft_burn of that item; nft_burn succeeds only when its caller
\* is the recorded owner of an existing item, then removes the item and
\* dispatches exactly one release to the vault of that identifier with the
\* burner as claimant; a burn of an identifier without an owner record
\* fails and dispatches nothing.
C18_BurnByOwnerOfExistingItem ==
    [][/\ \A id \in DOMAIN owner_by_id \ DOMAIN owner_by_id' :
             BurnStep /\ lastMint'.ok /\ lastMint'.id = id
       /\ BurnStep =>
             LET id == lastMint'.id
                 c == lastMint'.caller
             IN  /\ lastMint'.ok =>
                       /\ id \in DOMAIN owner_by_id
                       /\ owner_by_id[id] = c
                       /\ id \notin DOMAIN owner_by_id'
                       /\ lastMint'.released = {release_call(id, c)}
                       /\ releases' = releases \cup {release_call(id, c)}
                 /\ id \notin DOMAIN owner_by_id =>
                       /\ ~lastMint'.ok
                       /\ lastMint'.released = {}
                       /\ releases' = releases]_vars

\* C19 as stated: the vault a successful mint provisions is seeded with
\* the declared assets and records the minting caller as its owner.
C19_VaultOwnerIsMinter ==
    [][(IsMint("nft_mint_one") /\ lastMint'.ok)
        => LET v == vaults'[lastMint'.id]
           IN  /\ v.token_deposit = lastMint'.td
               /\ v.near_amount = lastMint'.near_amount
               /\ v.owner_id = lastMint'.caller]_vars

\* C19 (amended): the vault a successful mint provisions is seeded with
\* the declared token deposits and NEAR amount exactly as the caller passed
\* them and records the minting contract, not the caller, as its owner;
\* these never change afterwards, and a release that the contract
\* dispatches from nft_burn is never refused by a live vault.
C19_VaultOwnerIsContract ==
    /\ [](\A id \in 1..Len(vaults) :
             vaults[id].status # "none"
                 => /\ vaults[id].owner_id = current_account_id
                    /\ vaults[id].removed_by # "refused")
    /\ [][/\ (IsMint("nft_mint_one") /\ lastMint'.ok)
             => /\ Len(vaults') = Len(vaults) + 1
                /\ lastMint'.id = Len(vaults')
                /\ vaults'[lastMint'.id] =
                      vault_account(current_account_id, lastMint'.td,
                                    lastMint'.near_amount, lastMint'.caller)
          /\ \A id \in 1..Len(vaults) :
                /\ vaults'[id].owner_id = vaults[id].owner_id
                /\ vaults'[id].token_deposit = vaults[id].token_deposit
                /\ vaults'[id].near_amount = vaults[id].near_amount]_vars

C19_Witness ==
    \E id \in 1..Len(vaults) :
        /\ vaults[id].status = "deleted"
        /\ vaults[id].removed_by = "release"
        /\ vaults[id].owner_id = current_account_id
        /\ vaults[id].access_key = "alice"
        /\ release_call(id, "alice") \in releases
        /\ vaults[id].token_deposit # <<>>
        /\ vaults[id].near_amount = 100

\* C20: after provisioning, a vault and what it holds change only through
\* the vault's own entry points: a live vault account changes only by the
\* release that a burn of its item dispatched, and no other actor, the
\* minting signer included, alters or removes it.
C20_VaultChangesOnlyByRelease ==
    [][\A id \in 1..Len(vaults) :
          (vaults[id].status = "live" /\ vaults'[id] # vaults[id])
              => /\ \E c \in releases : c.id = id
                 /\ vaults'[id].removed_by = "release"]_vars

\* A request for more items than any allowance grants, with a deposit that
\* pays for all of them: what admission makes of it is what the account may
\* still mint.
LargeRequest == 9
AmpleDeposit == 99
Admission(account_id) == assert_can_mint(account_id, LargeRequest, AmpleDeposit)

\* C21: remaining_allowance agrees with mint admission: for every account,
\* in every sale state (already when only the states in which the sale is
\* not closed are looked at), it returns None only when admission leaves
\* the account's request unclamped, and otherwise the number of items
\* admission would clamp a request to (0 when admission rejects the
\* account).
C21_ViewAgreesWithAdmission ==
    get_status # "Closed" =>
        \A a \in Minters :
            LET r == remaining_allowance(a)
                m == Admission(a)
            IN  /\ r = None => (m.ok /\ m.num = LargeRequest)
                /\ r # None => r = (IF m.ok THEN m.num ELSE 0)

\* C22: a notification for a declaration that no notification has confirmed
\* yet (the first declaration of the sending contract) is accepted exactly
\* when its amount is the declared token amount plus the fee on the base
\* amount; on acceptance the declaration is confirmed, one transfer of that
\* token is forwarded to the vault owner and 0 is returned as unused.
C22_AcceptedOnDeclaredPlusBaseFee ==
    [][(IsCall("ft_on_transfer") /\ vault_status = "live")
        => \A i \in 1..Len(token_deposit) :
              (/\ token_deposit[i].token_contract_id = lastCall'.caller
               /\ token_matched[i] = 0
               /\ \A j \in 1..(i - 1) :
                     token_deposit[j].token_contract_id # lastCall'.caller)
              => LET accepted == token_matched'[i] = 1
                 IN  /\ accepted <=>
                           lastCall'.amount
                               = token_deposit[i].token_amount + near_fee
                     /\ accepted =>
                           /\ token_deposit'[i].is_deposited
                           /\ lastCall'.ret = 0
                           /\ \E k \in 1..Len(lastCall'.promises) :
                                 /\ lastCall'.promises[k].kind = "ft_transfer"
                                 /\ lastCall'.promises[k].token = lastCall'.caller
                                 /\ lastCall'.promises[k].receiver = owner_id]_vars

\* A step in which on_send_with_callback ran
SendCallbackStep ==
    /\ lastMint'.op = "on_send_with_callback"
    /\ linkdrops' # linkdrops

OpenDrop(d) == d.state \in {"sending", "sent"}

\* C23: compensation of a failed send happens in the callback only and
\* once per issued call: on_send_with_callback after a failed promise
\* decrements pending_tokens by exactly 1 and refunds the whole attached
\* value to the original signer; after a successful promise it changes no
\* contract state and refunds nothing; nothing else refunds, only the two
\* callbacks decrement, and pending_tokens, which counts the link-drops
\* still open, never drops below zero.
C23_CompensationOncePerCall ==
    /\ [](/\ pending_tokens >= 0
          /\ pending_tokens = Count(linkdrops, OpenDrop))
    /\ [][/\ SendCallbackStep =>
                \E k \in 1..Len(linkdrops) :
                    /\ linkdrops[k].state = "sending"
                    /\ \A j \in 1..Len(linkdrops) \ {k} :
                          linkdrops'[j] = linkdrops[j]
                    /\ linkdrops'[k].state = "failed" =>
                          /\ pending_tokens' = pending_tokens - 1
                          /\ refunded' =
                                [refunded EXCEPT ![linkdrops[k].signer] =
                                    @ + linkdrops[k].deposit]
                    /\ linkdrops'[k].state # "failed" =>
                          /\ linkdrops'[k].state = "sent"
                          /\ UNCHANGED <<pending_tokens, refunded, sale,
                                         whitelist, last_id, owner_by_id,
                                         vaults, releases>>
          /\ refunded' # refunded => SendCallbackStep
          /\ pending_tokens' < pending_tokens =>
                /\ pending_tokens' = pending_tokens - 1
                /\ \/ SendCallbackStep
                   \/ lastMint'.op = "link_callback" /\ lastMint'.ok]_vars

C23_Witness ==
    /\ Len(linkdrops) = 2
    /\ \E k \in 1..2 :
          /\ linkdrops[k].state = "failed"
          /\ linkdrops[k].deposit = 3
          /\ linkdrops[3 - k].state = "claimed"
    /\ refunded["alice"] = 3
    /\ pending_tokens = 0
    /\ last_id = 1

\* Sum of f[i] over the indices in S
RECURSIVE SumOver(_, _)
SumOver(f, S) ==
    IF S = {} THEN 0
    ELSE LET i == CHOOSE x \in S : TRUE
         IN  f[i] + SumOver(f, S \ {i})

DeclarationsOf(contract) ==
    {i \in 1..Len(token_deposit) :
        token_deposit[i].token_contract_id = contract}

\* what release would send to the claimant
BaseDue == IF near_deposited THEN near_amount ELSE 0
TokenDue(contract) ==
    SumOver([i \in 1..Len(token_deposit) |->
                IF token_deposit[i].is_deposited
                THEN token_deposit[i].token_amount ELSE 0],
            DeclarationsOf(contract))

\* what the vault took in through accepted deposits, less the fees it
\* forwarded and what earlier releases sent out
BaseHeld ==
    near_accepted * (near_fee + near_amount) - fee_forwarded
        - near_released * near_amount
TokenHeld(contract) ==
    SumOver([i \in 1..Len(token_deposit) |->
                token_matched[i]
                    * (required_transfer(token_deposit[i])
                       - (token_deposit[i].token_amount \div 100))
                - token_released[i] * token_deposit[i].token_amount],
            DeclarationsOf(contract))

\* C24: vault solvency: in every state of a live vault, for the base
\* currency and for each token contract, what release would dispatch to
\* the claimant does not exceed what the vault received of that asset
\* through accepted deposits minus the fees it forwarded; a declaration is
\* confirmed only if a matching deposit was received.
C24_VaultSolvent ==
    vault_status = "live" =>
        /\ BaseDue <= BaseHeld
        /\ \A c \in TokenContracts : TokenDue(c) <= TokenHeld(c)
        /\ \A i \in 1..Len(token_deposit) :
              token_deposit[i].is_deposited => token_matched[i] >= 1

\* C25: mint value conservation: the value a successful nft_mint_one sends
\* out (the surplus paid to the contract owner plus the seed transferred to
\* the new vault) does not exceed the value the caller attached minus the
\* storage cost of the minted item.
C25_MintSendsAtMostAttached ==
    (lastMint.op = "nft_mint_one" /\ lastMint.ok)
        => lastMint.sent <= lastMint.attached - StorageCost

\* C26: one transfer notification confirms at most one declaration and its
\* return value says what it did: in every ft_on_transfer call on a vault,
\* either exactly one declaration flips to confirmed and 0 is returned as
\* unused, or no declaration changes and the whole transferred amount is
\* returned as unused.
C26_ReturnMatchesEffect ==
    [][(IsCall("ft_on_transfer") /\ lastCall'.ok)
        => LET flipped == {i \in 1..Len(token_deposit) :
                              /\ ~token_deposit[i].is_deposited
                              /\ token_deposit'[i].is_deposited}
           IN  \/ /\ Cardinality(flipped) = 1
                  /\ lastCall'.ret = 0
               \/ /\ token_deposit' = token_deposit
                  /\ lastCall'.ret = lastCall'.amount]_vars

====
